---- MODULE Spec2Model ----
(***************************************************************************)
(* Elite Bankroll: the ledger analytics (timeline replay, metrics) and the *)
(* leverage-cycle ("Soros") simulator of App.tsx, as state machines.       *)
(*                                                                         *)
(* JavaScript numbers are modelled as exact rationals <<n, d>> in lowest   *)
(* terms with d > 0; a division by zero gives the value NaN.  Form inputs  *)
(* are strings, modelled as sequences of one-character strings, and are    *)
(* converted by ParseLocaleNumber as the code converts them.               *)
(***************************************************************************)
EXTENDS Integers, Sequences, FiniteSets, TLC

(***************************************************************************)
(* Bounds of the model.                                                    *)
(***************************************************************************)
MaxSteps == 3
\* the number of ledger updates (setBankroll calls) a behaviour makes
MaxEvents == 3
\* the last tick of the clock
MaxNow == 2

(***************************************************************************)
(* Number arithmetic.                                                      *)
(***************************************************************************)
NaN == "NaN"

Abs(n) == IF n < 0 THEN -n ELSE n

RECURSIVE GCD(_, _)
GCD(a, b) == IF b = 0 THEN a ELSE GCD(b, a % b)

Rat(n, d) ==
  IF d = 0 THEN NaN
  ELSE LET g == GCD(Abs(n), Abs(d))
           s == IF d < 0 THEN -1 ELSE 1
       IN  <<(s * n) \div g, (s * d) \div g>>

RInt(n) == <<n, 1>>
Zero == RInt(0)
One == RInt(1)
Hundred == RInt(100)

\* common factors are cancelled before multiplying, to keep the integers small
RAdd(a, b) ==
  LET g == GCD(a[2], b[2])
  IN  Rat(a[1] * (b[2] \div g) + b[1] * (a[2] \div g), (a[2] \div g) * b[2])
RNeg(a) == <<-a[1], a[2]>>
RSub(a, b) == RAdd(a, RNeg(b))
RMul(a, b) ==
  LET g1 == GCD(Abs(a[1]), b[2])
      g2 == GCD(Abs(b[1]), a[2])
  IN  Rat((a[1] \div g1) * (b[1] \div g2), (a[2] \div g2) * (b[2] \div g1))
RDiv(a, b) ==
  IF b[1] = 0 THEN NaN
  ELSE RMul(a, IF b[1] < 0 THEN <<-b[2], -b[1]>> ELSE <<b[2], b[1]>>)
RAbs(a) == <<Abs(a[1]), a[2]>>
RLt(a, b) ==
  LET g == GCD(a[2], b[2])
  IN  a[1] * (b[2] \div g) < b[1] * (a[2] \div g)
RLe(a, b) ==
  LET g == GCD(a[2], b[2])
  IN  a[1] * (b[2] \div g) <= b[1] * (a[2] \div g)
RGt(a, b) == RLt(b, a)
RGe(a, b) == RLe(b, a)
RMin(a, b) == IF RLe(a, b) THEN a ELSE b

(***************************************************************************)
(* parseLocaleNumber: the first comma becomes a point, parseFloat reads    *)
(* the longest numeric prefix ([sign] digits [. digits]), and a string     *)
(* with no numeric prefix (NaN) or an empty string gives 0.                *)
(***************************************************************************)
Digits == {"0", "1", "2", "3", "4", "5", "6", "7", "8", "9"}

DigitVal(c) ==
  CASE c = "0" -> 0 [] c = "1" -> 1 [] c = "2" -> 2 [] c = "3" -> 3
    [] c = "4" -> 4 [] c = "5" -> 5 [] c = "6" -> 6 [] c = "7" -> 7
    [] c = "8" -> 8 [] c = "9" -> 9

RECURSIVE Pow10(_)
Pow10(k) == IF k = 0 THEN 1 ELSE 10 * Pow10(k - 1)

\* String.prototype.replace(',', '.'): only the first occurrence
ReplaceFirstComma(val) ==
  LET commas == {i \in 1..Len(val) : val[i] = ","}
  IN  IF commas = {} THEN val
      ELSE LET first == CHOOSE i \in commas : \A j \in commas : i <= j
           IN  [val EXCEPT ![first] = "."]

\* the index after the longest run of digits of s that starts at p
RECURSIVE RunEnd(_, _)
RunEnd(s, p) ==
  IF p <= Len(s) /\ s[p] \in Digits THEN RunEnd(s, p + 1) ELSE p

\* the value of the digits s[p..q-1]
RECURSIVE DigitsVal(_, _, _)
DigitsVal(s, p, q) ==
  IF q <= p THEN 0 ELSE 10 * DigitsVal(s, p, q - 1) + DigitVal(s[q - 1])

ParseFloat(s) ==
  LET signed == Len(s) >= 1 /\ s[1] \in {"-", "+"}
      p0 == IF signed THEN 2 ELSE 1
      p1 == RunEnd(s, p0)
      hasPoint == p1 <= Len(s) /\ s[p1] = "."
      p2 == IF hasPoint THEN RunEnd(s, p1 + 1) ELSE p1
      fracLen == IF hasPoint THEN p2 - (p1 + 1) ELSE 0
      intVal == DigitsVal(s, p0, p1)
      fracVal == IF hasPoint THEN DigitsVal(s, p1 + 1, p2) ELSE 0
      mag == Rat(intVal * Pow10(fracLen) + fracVal, Pow10(fracLen))
  IN  IF p1 = p0 /\ fracLen = 0 THEN NaN
      ELSE IF signed /\ s[1] = "-" THEN RNeg(mag) ELSE mag

ParseLocaleNumber(val) ==
  IF val = <<>> THEN Zero
  ELSE LET num == ParseFloat(ReplaceFirstComma(val))
       IN  IF num = NaN THEN Zero ELSE num

(***************************************************************************)
(* Values the forms of the model can submit.                               *)
(***************************************************************************)
LevCapitalInputs == {<<"1", "0">>, <<"1", "0", "0">>, <<"x">>}
LevOddInputs == {<<"2">>, <<"1", ",", "5">>, <<>>}
LevPercentInputs == {0, 20}

UnitsInputs == {<<"1">>}
\* the odd and the status of a submitted form: the odd enters the result of
\* a GREEN operation only
OddStatusInputs ==
  {<<(<<"2">>), "GREEN">>, <<(<<"1", ",", "5">>), "GREEN">>,
   <<(<<"2">>), "RED">>, <<(<<"2">>), "PENDING">>}
ProbInputs == {<<"6", "0">>}
SentimentInputs == {"Calmo"}
CategoryInputs == {"a"}
TypeInputs == {"DEPOSIT", "WITHDRAWAL"}
AmountInputs == {<<"5", "0", "0">>}
InitialInputs == {<<"1", "0", "0", "0">>}
RiskInputs == {<<"5", "0">>, <<"x">>}
GoalInputs == {<<"1">>}

\* a timestamp is a number of ticks; a calendar day is DayLen ticks long and
\* the model runs in the UTC time zone (local midnight = UTC midnight)
DayLen == 2
DayOf(ts) == ts \div DayLen
\* the days the date input of the operation form can name; NoDate is the
\* empty date string
NoDate == -1
MatchDateInputs == 0..(MaxNow \div DayLen)

NULL == [null |-> TRUE]
DEPOSIT == "DEPOSIT"
WITHDRAWAL == "WITHDRAWAL"

GREEN == "GREEN"
RED == "RED"
REFUND == "REFUND"
PENDING == "PENDING"

VARIABLES
  \* leverage tab (App.tsx, second variant)
  levStartCapital, levOdd, levSteps, levWithdrawPercent, levRows,
  levHeld,          \* what a reader that keeps the array levRows was before
                    \* its last change reads in it now, if there is a reader
  \* ledger (part_000)
  bankroll,         \* the BankrollState record
  isOpModalOpen, editingOp, showStopWarning, pendingOp,
  now,              \* the clock, Date.now()
  statsHoje,        \* the day for which the memoised stats were computed
  events            \* the number of ledger updates made so far

levVars == <<levStartCapital, levOdd, levSteps, levWithdrawPercent, levRows,
            levHeld>>

ledgerVars == <<bankroll, isOpModalOpen, editingOp, showStopWarning, pendingOp,
                now, statsHoje, events>>

vars == <<levStartCapital, levOdd, levSteps, levWithdrawPercent, levRows,
          levHeld,
          bankroll, isOpModalOpen, editingOp, showStopWarning, pendingOp,
          now, statsHoje, events>>

(***************************************************************************)
(* Leverage cycle simulator.                                               *)
(***************************************************************************)
\* no part of the page keeps an earlier array of rows
NoReader == [held |-> FALSE, rows |-> <<>>]

\* the reader, if there is one, keeps the array of before the change, whose
\* rows now read as seen
HeldAfter(seen) == IF levHeld.held THEN [held |-> TRUE, rows |-> seen] ELSE levHeld

\* saquePotencial = retorno * (levWithdrawPercent / 100)
SaquePotencial(retorno, percent) ==
  RMul(retorno, RDiv(RInt(percent), Hundred))

\* a generateCycle that books the withdrawal at once (mutant of GenerateRow)
GenerateRow_withdrawn(i, currentStake, oddVal, percent) ==
  LET retorno == RMul(currentStake, oddVal)
      saque == SaquePotencial(retorno, percent)
  IN  [step |-> i, stake |-> currentStake, odd |-> oddVal,
       retorno |-> retorno, saquePotencial |-> saque,
       isWithdrawn |-> FALSE, status |-> PENDING,
       nextStake |-> RSub(retorno, saque)]

\* one iteration of the loop of generateCycle
GenerateRow(i, currentStake, oddVal, percent) ==
  LET retorno == RMul(currentStake, oddVal)
  IN  [step |-> i, stake |-> currentStake, odd |-> oddVal,
       retorno |-> retorno,
       saquePotencial |-> SaquePotencial(retorno, percent),
       isWithdrawn |-> FALSE, status |-> PENDING, nextStake |-> retorno]

RECURSIVE GenerateLoop(_, _, _, _, _, _)
GenerateLoop(i, steps, currentStake, oddVal, percent, newRows) ==
  IF i > steps THEN newRows
  ELSE LET row == GenerateRow(i, currentStake, oddVal, percent)
       IN  GenerateLoop(i + 1, steps, row.retorno, oddVal, percent,
                        Append(newRows, row))

\* generateCycle, as a function of the configuration it reads
GenerateCycle(capitalStr, oddStr, steps, percent) ==
  GenerateLoop(1, steps, ParseLocaleNumber(capitalStr),
               ParseLocaleNumber(oddStr), percent, <<>>)

\* a chain that a RED row does not break (mutant of ChainStake)
ChainStake_noBreak(updated, i, capitalStr) ==
  IF i > 1 THEN updated[i - 1].nextStake ELSE ParseLocaleNumber(capitalStr)

\* the stake of row i in recalculateChain (i is 1-based here)
ChainStake(updated, i, capitalStr) ==
  IF i > 1
  THEN IF updated[i - 1].status = RED THEN Zero ELSE updated[i - 1].nextStake
  ELSE ParseLocaleNumber(capitalStr)

\* a nextStake that reinvests the whole return (mutant of ChainNextStake)
ChainNextStake_reinvest(isWithdrawn, retorno, saque) == retorno

\* nextStake of a row from its retorno, saquePotencial and isWithdrawn
ChainNextStake(isWithdrawn, retorno, saque) ==
  IF isWithdrawn THEN RSub(retorno, saque) ELSE retorno

\* a recompute that takes back the withdrawal of a row after a RED row
\* (mutant of RecalculateRow)
RecalculateRow_unflag(updated, i, capitalStr, percent) ==
  LET stake == ChainStake(updated, i, capitalStr)
      retorno == RMul(stake, updated[i].odd)
      saque == SaquePotencial(retorno, percent)
      flag == IF i > 1 /\ updated[i - 1].status = RED THEN FALSE
              ELSE updated[i].isWithdrawn
  IN  [updated[i] EXCEPT
         !.stake = stake, !.retorno = retorno, !.saquePotencial = saque,
         !.isWithdrawn = flag,
         !.nextStake = ChainNextStake(flag, retorno, saque)]

\* the body of the loop of recalculateChain for row i
RecalculateRow(updated, i, capitalStr, percent) ==
  LET stake == ChainStake(updated, i, capitalStr)
      retorno == RMul(stake, updated[i].odd)
      saque == SaquePotencial(retorno, percent)
  IN  [updated[i] EXCEPT
         !.stake = stake, !.retorno = retorno, !.saquePotencial = saque,
         !.nextStake = ChainNextStake(updated[i].isWithdrawn, retorno, saque)]

\* recalculateChain(currentRows, startIndex): rows startIndex..N in order
RECURSIVE RecalculateChain(_, _, _, _)
RecalculateChain(updated, i, capitalStr, percent) ==
  IF i > Len(updated) THEN updated
  ELSE RecalculateChain(
         [updated EXCEPT ![i] = RecalculateRow(updated, i, capitalStr, percent)],
         i + 1, capitalStr, percent)

\* a recompute that skips the row acted on (mutant of RecalcStart)
RecalcStart_after(index) == index + 1

\* the row the recompute starts from, given the row the user acted on
RecalcStart(index) == index

DefaultState ==
  [initialBalance |-> Zero, unitValuePercent |-> One,
   dailyGoalPercent |-> RInt(3), transactions |-> <<>>, operations |-> <<>>]

LedgerInit ==
  /\ bankroll = DefaultState
  /\ isOpModalOpen = FALSE
  /\ editingOp = NULL
  /\ showStopWarning = FALSE
  /\ pendingOp = NULL
  /\ now = 0
  /\ statsHoje = DayOf(0)
  /\ events = 0

LevInit ==
  /\ LedgerInit
  /\ levStartCapital \in LevCapitalInputs
  /\ levOdd \in LevOddInputs
  /\ levSteps \in 0..MaxSteps
  /\ levWithdrawPercent \in LevPercentInputs
  /\ levRows = GenerateCycle(levStartCapital, levOdd, levSteps,
                             levWithdrawPercent)
  /\ levHeld = NoReader

\* onChange of the inputs; the effect on the four settings runs generateCycle,
\* which builds new row objects: the array held before keeps its rows
SetLevStartCapital(v) ==
  /\ v # levStartCapital
  /\ levStartCapital' = v
  /\ levRows' = GenerateCycle(v, levOdd, levSteps, levWithdrawPercent)
  /\ levHeld' = HeldAfter(levRows)
  /\ UNCHANGED <<levOdd, levSteps, levWithdrawPercent>>
  /\ UNCHANGED ledgerVars

SetLevOdd(v) ==
  /\ v # levOdd
  /\ levOdd' = v
  /\ levRows' = GenerateCycle(levStartCapital, v, levSteps, levWithdrawPercent)
  /\ levHeld' = HeldAfter(levRows)
  /\ UNCHANGED <<levStartCapital, levSteps, levWithdrawPercent>>
  /\ UNCHANGED ledgerVars

SetLevSteps(n) ==
  /\ n # levSteps
  /\ levSteps' = n
  /\ levRows' = GenerateCycle(levStartCapital, levOdd, n, levWithdrawPercent)
  /\ levHeld' = HeldAfter(levRows)
  /\ UNCHANGED <<levStartCapital, levOdd, levWithdrawPercent>>
  /\ UNCHANGED ledgerVars

SetLevWithdrawPercent(p) ==
  /\ p # levWithdrawPercent
  /\ levWithdrawPercent' = p
  /\ levRows' = GenerateCycle(levStartCapital, levOdd, levSteps, p)
  /\ levHeld' = HeldAfter(levRows)
  /\ UNCHANGED <<levStartCapital, levOdd, levSteps>>
  /\ UNCHANGED ledgerVars

\* a toggle that sets the flag instead of flipping it (mutant of ToggledRows)
ToggledRows_setOn(rows, index, capitalStr, percent) ==
  RecalculateChain([rows EXCEPT ![index].isWithdrawn = TRUE],
                   RecalcStart(index), capitalStr, percent)

\* the rows that toggleWithdraw(index) hands to setLevRows
ToggledRows(rows, index, capitalStr, percent) ==
  RecalculateChain([rows EXCEPT ![index].isWithdrawn = ~rows[index].isWithdrawn],
                   RecalcStart(index), capitalStr, percent)

\* a toggle whose recompute starts at the row after the one acted on (mutant
\* of toggleWithdraw)
toggleWithdraw_skipRow(index) ==
  /\ index \in 1..Len(levRows)
  /\ levRows' = RecalculateChain(
       [levRows EXCEPT ![index].isWithdrawn = ~levRows[index].isWithdrawn],
       RecalcStart(index) + 1, levStartCapital, levWithdrawPercent)
  /\ levHeld' = HeldAfter(levRows')
  /\ UNCHANGED <<levStartCapital, levOdd, levSteps, levWithdrawPercent>>
  /\ UNCHANGED ledgerVars

\* [...levRows] copies the array, not the rows: updated[index] and the rows
\* that recalculateChain writes are the objects of the array held before, so
\* that array reads as the new one
toggleWithdraw(index) ==
  /\ index \in 1..Len(levRows)
  /\ levRows' = ToggledRows(levRows, index, levStartCapital,
                            levWithdrawPercent)
  /\ levHeld' = HeldAfter(levRows')
  /\ UNCHANGED <<levStartCapital, levOdd, levSteps, levWithdrawPercent>>
  /\ UNCHANGED ledgerVars

setRowStatus(index, status) ==
  /\ index \in 1..Len(levRows)
  /\ levRows' = RecalculateChain(
       [levRows EXCEPT ![index].status = status],
       RecalcStart(index), levStartCapital, levWithdrawPercent)
  /\ levHeld' = HeldAfter(levRows')
  /\ UNCHANGED <<levStartCapital, levOdd, levSteps, levWithdrawPercent>>
  /\ UNCHANGED ledgerVars

\* a reducer that counts the withdrawn rows that won only (mutant of
\* WithdrawalReducer)
WithdrawalReducer_winsOnly(acc, r) ==
  IF r.isWithdrawn /\ r.status = GREEN THEN RAdd(acc, r.saquePotencial)
  ELSE acc

\* (acc, r) => r.isWithdrawn ? acc + r.saquePotencial : acc
WithdrawalReducer(acc, r) ==
  IF r.isWithdrawn THEN RAdd(acc, r.saquePotencial) ELSE acc

\* levRows.reduce(reducer, 0), from row k on with the accumulator acc
RECURSIVE TotalWithdrawals(_, _, _)
TotalWithdrawals(rows, k, acc) ==
  IF k > Len(rows) THEN acc
  ELSE TotalWithdrawals(rows, k + 1, WithdrawalReducer(acc, rows[k]))

\* levRows.findLast(r => r.status === GREEN), searched from row k downwards
RECURSIVE FindLastGreen(_, _)
FindLastGreen(rows, k) ==
  IF k = 0 THEN NULL
  ELSE IF rows[k].status = GREEN THEN rows[k]
  ELSE FindLastGreen(rows, k - 1)

\* findLast(...)?.nextStake || 0
CurrentCycleBalance(rows) ==
  LET r == FindLastGreen(rows, Len(rows))
  IN  IF r = NULL THEN Zero
      ELSE IF r.nextStake = NaN \/ r.nextStake = Zero THEN Zero
      ELSE r.nextStake

\* the memo over [levRows]
LeverageSummaryOf(rows) ==
  [totalWithdrawals |-> TotalWithdrawals(rows, 1, Zero),
   currentBalance |-> CurrentCycleBalance(rows)]

leverageSummary == LeverageSummaryOf(levRows)

LevNext ==
  \/ \E v \in LevCapitalInputs : SetLevStartCapital(v)
  \/ \E v \in LevOddInputs : SetLevOdd(v)
  \/ \E n \in 0..MaxSteps : SetLevSteps(n)
  \/ \E p \in LevPercentInputs : SetLevWithdrawPercent(p)
  \/ \E i \in 1..MaxSteps : toggleWithdraw(i)
  \/ \E i \in 1..MaxSteps, s \in {GREEN, RED, PENDING} : setRowStatus(i, s)

SpecLev == LevInit /\ [][LevNext]_vars

\* the simulator with a reader that keeps the array of rows of before each
\* change (a memo, an effect closure, a child component)
HeldInit ==
  /\ LedgerInit
  /\ levStartCapital \in LevCapitalInputs
  /\ levOdd \in LevOddInputs
  /\ levSteps \in 0..MaxSteps
  /\ levWithdrawPercent \in LevPercentInputs
  /\ levRows = GenerateCycle(levStartCapital, levOdd, levSteps,
                             levWithdrawPercent)
  /\ levHeld = [held |-> TRUE, rows |-> levRows]

SpecHeld == HeldInit /\ [][LevNext]_vars

(***************************************************************************)
(* Ledger: the timeline replay and the metrics of stats (part_000).        *)
(***************************************************************************)
\* Array.prototype.sort is stable: x goes after every element that does not
\* sort after it; dir = 1 sorts ascending by date, dir = -1 descending
RECURSIVE InsertByDate(_, _, _)
InsertByDate(sorted, x, dir) ==
  IF sorted = <<>> THEN <<x>>
  ELSE IF dir * Head(sorted).date <= dir * x.date
       THEN <<Head(sorted)>> \o InsertByDate(Tail(sorted), x, dir)
       ELSE <<x>> \o sorted

RECURSIVE SortByDate(_, _)
SortByDate(seq, dir) ==
  IF seq = <<>> THEN <<>>
  ELSE InsertByDate(SortByDate(SubSeq(seq, 1, Len(seq) - 1), dir),
                    seq[Len(seq)], dir)

\* the signed value of a transaction in the timeline
TxValue(t) == IF t.type = DEPOSIT THEN t.amount ELSE RNeg(t.amount)

\* sortedTimeline: operations first, then transactions, sorted by date
SortedTimeline(b) ==
  SortByDate(
    [i \in 1..Len(b.operations) |->
       [date |-> b.operations[i].date, value |-> b.operations[i].profitLoss]]
    \o
    [i \in 1..Len(b.transactions) |->
       [date |-> b.transactions[i].date, value |-> TxValue(b.transactions[i])]],
    1)

\* a replay that measures against the initial peak only (mutant of ReplayPeak)
ReplayPeak_frozen(runningBalance, peakBalance) == peakBalance

\* if (runningBalance > peakBalance) peakBalance = runningBalance
ReplayPeak(runningBalance, peakBalance) ==
  IF RGt(runningBalance, peakBalance) THEN runningBalance ELSE peakBalance

\* currentDD of one replay step
CurrentDD(peakBalance, runningBalance) ==
  IF RGt(peakBalance, Zero)
  THEN RMul(RDiv(RSub(peakBalance, runningBalance), peakBalance), Hundred)
  ELSE Zero

\* if (currentDD > maxDDValue) maxDDValue = currentDD
ReplayMaxDD(currentDD, maxDDValue) ==
  IF RGt(currentDD, maxDDValue) THEN currentDD ELSE maxDDValue

ReplayStart(initial) ==
  [runningBalance |-> initial, peakBalance |-> initial, maxDDValue |-> Zero]

\* a replay that drops withdrawals (mutant of ReplayRunning)
ReplayRunning_gainsOnly(runningBalance, value) ==
  IF RLt(value, Zero) THEN runningBalance ELSE RAdd(runningBalance, value)

\* runningBalance += item.value
ReplayRunning(runningBalance, value) == RAdd(runningBalance, value)

\* the body of sortedTimeline.forEach
ReplayStep(st, item) ==
  LET running == ReplayRunning(st.runningBalance, item.value)
      peak == ReplayPeak(running, st.peakBalance)
  IN  [runningBalance |-> running, peakBalance |-> peak,
       maxDDValue |-> ReplayMaxDD(CurrentDD(peak, running), st.maxDDValue)]

\* the replay state after the first k items of the timeline
RECURSIVE ReplayPrefix(_, _, _)
ReplayPrefix(timeline, k, initial) ==
  IF k = 0 THEN ReplayStart(initial)
  ELSE ReplayStep(ReplayPrefix(timeline, k - 1, initial), timeline[k])

Replay(b) ==
  LET timeline == SortedTimeline(b)
  IN  ReplayPrefix(timeline, Len(timeline), b.initialBalance)

CurrentBalance(b) == Replay(b).runningBalance

MaxDrawdown(b) == Replay(b).maxDDValue

\* a unit value without the floor (mutant of UnitValueOf)
UnitValueOf_noFloor(currentBalance, unitValuePercent) ==
  RDiv(RMul(currentBalance, unitValuePercent), Hundred)

\* unitValue, with its floor of 1.0
UnitValueOf(currentBalance, unitValuePercent) ==
  LET unitValue == RDiv(RMul(currentBalance, unitValuePercent), Hundred)
  IN  IF RLe(unitValue, Zero) THEN One ELSE unitValue

UnitValue(b) == UnitValueOf(CurrentBalance(b), b.unitValuePercent)

RECURSIVE SumProfit(_)
SumProfit(ops) ==
  IF ops = <<>> THEN Zero
  ELSE RAdd(SumProfit(SubSeq(ops, 1, Len(ops) - 1)), ops[Len(ops)].profitLoss)

RECURSIVE SumStake(_)
SumStake(ops) ==
  IF ops = <<>> THEN Zero
  ELSE RAdd(SumStake(SubSeq(ops, 1, Len(ops) - 1)), ops[Len(ops)].stakeAmount)

IsFinished(o) == o.status # PENDING
IsGreen(o) == o.status = GREEN
IsGreenOrRed(o) == o.status = GREEN \/ o.status = RED
IsPositiveEV(o) == o.isPositiveEV

\* the finished operations of every day (mutant of OpsHoje)
OpsHoje_allDays(b, hoje) ==
  SelectSeq(b.operations, LAMBDA o : o.status # PENDING)

\* operations dated on the day hoje whose status is not PENDING
OpsHoje(b, hoje) ==
  SelectSeq(b.operations, LAMBDA o : DayOf(o.date) = hoje /\ o.status # PENDING)

LucroPrejuizoDia(b, hoje) == SumProfit(OpsHoje(b, hoje))

ValorMetaDiaria(b, hoje) ==
  RMul(RSub(CurrentBalance(b), LucroPrejuizoDia(b, hoje)),
       RDiv(b.dailyGoalPercent, Hundred))

StopLossDiario(b, hoje) == RNeg(ValorMetaDiaria(b, hoje))

IsStopLossAtingido(b, hoje) ==
  /\ RLe(LucroPrejuizoDia(b, hoje), StopLossDiario(b, hoje))
  /\ StopLossDiario(b, hoje) # Zero

IsMetaBatida(b, hoje) ==
  /\ RGe(LucroPrejuizoDia(b, hoje), ValorMetaDiaria(b, hoje))
  /\ ValorMetaDiaria(b, hoje) # Zero

\* a progress without Math.min (mutant of ProgressoVisual)
ProgressoVisual_noCap(b, hoje) ==
  LET lucro == LucroPrejuizoDia(b, hoje)
      meta == ValorMetaDiaria(b, hoje)
      stop == StopLossDiario(b, hoje)
  IN  IF RGt(lucro, Zero)
      THEN IF RGt(meta, Zero) THEN RMul(RDiv(lucro, meta), Hundred) ELSE Zero
      ELSE IF RLt(lucro, Zero)
      THEN IF RLt(stop, Zero)
           THEN RMul(RDiv(RAbs(lucro), RAbs(stop)), Hundred) ELSE Zero
      ELSE Zero

ProgressoVisual(b, hoje) ==
  LET lucro == LucroPrejuizoDia(b, hoje)
      meta == ValorMetaDiaria(b, hoje)
      stop == StopLossDiario(b, hoje)
  IN  IF RGt(lucro, Zero)
      THEN IF RGt(meta, Zero)
           THEN RMin(Hundred, RMul(RDiv(lucro, meta), Hundred)) ELSE Zero
      ELSE IF RLt(lucro, Zero)
      THEN IF RLt(stop, Zero)
           THEN RMin(Hundred, RMul(RDiv(RAbs(lucro), RAbs(stop)), Hundred))
           ELSE Zero
      ELSE Zero

FinishedOps(b) == SelectSeq(b.operations, IsFinished)

TotalProfit(b) == SumProfit(FinishedOps(b))

TotalStake(b) == SumStake(FinishedOps(b))

RoiOf(totalProfit, totalStake) ==
  IF RGt(totalStake, Zero)
  THEN RMul(RDiv(totalProfit, totalStake), Hundred) ELSE Zero

Roi(b) == RoiOf(TotalProfit(b), TotalStake(b))

\* a win rate over all operations (mutant of WinRate)
WinRate_allOps(b) ==
  LET greens == Len(SelectSeq(b.operations, IsGreen))
      total == Len(b.operations)
  IN  RMul(Rat(greens, IF total = 0 THEN 1 ELSE total), Hundred)

\* greens / (greens and reds || 1) * 100
WinRate(b) ==
  LET greens == Len(SelectSeq(FinishedOps(b), IsGreen))
      decided == Len(SelectSeq(FinishedOps(b), IsGreenOrRed))
  IN  RMul(Rat(greens, IF decided = 0 THEN 1 ELSE decided), Hundred)

EvRate(b) ==
  IF Len(b.operations) > 0
  THEN RMul(Rat(Len(SelectSeq(b.operations, IsPositiveEV)),
                Len(b.operations)), Hundred)
  ELSE Zero

\* String.prototype.toUpperCase on the letters the model uses
ToUpperCase(s) ==
  CASE s = "a" -> "A" [] s = "b" -> "B" [] s = "c" -> "C" [] OTHER -> s

\* the key of an operation in categoryMap
CategoryOf(op) == ToUpperCase(IF op.category = "" THEN "GERAL" ELSE op.category)

\* the keys of categoryMap, in the order the loop over allOps creates them
RECURSIVE CategoryNames(_)
CategoryNames(ops) ==
  IF ops = <<>> THEN <<>>
  ELSE LET before == CategoryNames(SubSeq(ops, 1, Len(ops) - 1))
           cat == CategoryOf(ops[Len(ops)])
       IN  IF \E i \in 1..Len(before) : before[i] = cat THEN before
           ELSE Append(before, cat)

CategoryEntry(ops, name) ==
  LET mine == SelectSeq(ops, LAMBDA o : CategoryOf(o) = name)
      profit == SumProfit(mine)
      stake == SumStake(mine)
  IN  [name |-> name, profit |-> profit,
       roi |-> IF RGt(stake, Zero) THEN RMul(RDiv(profit, stake), Hundred)
               ELSE Zero,
       winRate |-> RMul(Rat(Len(SelectSeq(mine, IsGreen)), Len(mine)), Hundred),
       total |-> Len(mine)]

\* stable sort by profit; dir = 1 ascending, dir = -1 descending
RECURSIVE InsertByProfit(_, _, _)
InsertByProfit(sorted, x, dir) ==
  IF sorted = <<>> THEN <<x>>
  ELSE IF (dir = 1 /\ RLe(Head(sorted).profit, x.profit))
          \/ (dir = -1 /\ RGe(Head(sorted).profit, x.profit))
       THEN <<Head(sorted)>> \o InsertByProfit(Tail(sorted), x, dir)
       ELSE <<x>> \o sorted

RECURSIVE SortByProfit(_, _)
SortByProfit(seq, dir) ==
  IF seq = <<>> THEN <<>>
  ELSE InsertByProfit(SortByProfit(SubSeq(seq, 1, Len(seq) - 1), dir),
                      seq[Len(seq)], dir)

CategoryStats(b) ==
  LET names == CategoryNames(b.operations)
  IN  SortByProfit([i \in 1..Len(names) |-> CategoryEntry(b.operations, names[i])],
                   -1)

\* a best category that is never null (mutant of FirstOrNull)
FirstOrNull_geral(seq) ==
  IF seq = <<>> THEN [name |-> "GERAL", profit |-> Zero] ELSE seq[1]

\* seq[0] || null
FirstOrNull(seq) == IF seq = <<>> THEN NULL ELSE seq[1]

BestCategory(b) == FirstOrNull(CategoryStats(b))

WorstCategory(b) == FirstOrNull(SortByProfit(CategoryStats(b), 1))

\* the name the insights panel shows as worst category, "N/A" for its
\* placeholder
PanelWorst(b) ==
  IF WorstCategory(b) # NULL /\ RLt(WorstCategory(b).profit, Zero)
  THEN WorstCategory(b).name ELSE "N/A"

\* "Pior Mercado" of the advisory prompt (App.tsx): worstCategory?.name || 'N/A'
PromptWorst(b) ==
  IF WorstCategory(b) # NULL THEN WorstCategory(b).name ELSE "N/A"

\* stats computed on them while today is the day hoje, but with the totals
\* taken over today's operations (mutant of StatsAt)
StatsAt_todayTotals(b, hoje) ==
  [currentBalance |-> CurrentBalance(b),
   totalProfit |-> LucroPrejuizoDia(b, hoje),
   roi |-> RoiOf(LucroPrejuizoDia(b, hoje), SumStake(OpsHoje(b, hoje))),
   winRate |-> WinRate(b),
   unitValue |-> UnitValue(b),
   maxDrawdown |-> MaxDrawdown(b),
   bestCategory |-> BestCategory(b),
   worstCategory |-> WorstCategory(b),
   evRate |-> EvRate(b),
   lucroPrejuizoDia |-> LucroPrejuizoDia(b, hoje),
   progressoVisual |-> ProgressoVisual(b, hoje),
   isStopLossAtingido |-> IsStopLossAtingido(b, hoje),
   isMetaBatida |-> IsMetaBatida(b, hoje),
   valorMetaDiaria |-> ValorMetaDiaria(b, hoje)]

\* the stats block computed on the ledger b while today is the day hoje
StatsAt(b, hoje) ==
  [currentBalance |-> CurrentBalance(b),
   totalProfit |-> TotalProfit(b),
   roi |-> Roi(b),
   winRate |-> WinRate(b),
   unitValue |-> UnitValue(b),
   maxDrawdown |-> MaxDrawdown(b),
   bestCategory |-> BestCategory(b),
   worstCategory |-> WorstCategory(b),
   evRate |-> EvRate(b),
   lucroPrejuizoDia |-> LucroPrejuizoDia(b, hoje),
   progressoVisual |-> ProgressoVisual(b, hoje),
   isStopLossAtingido |-> IsStopLossAtingido(b, hoje),
   isMetaBatida |-> IsMetaBatida(b, hoje),
   valorMetaDiaria |-> ValorMetaDiaria(b, hoje)]

\* the memoised stats: computed when bankroll changed, on the day statsHoje
Stats == StatsAt(bankroll, statsHoje)

(***************************************************************************)
(* Ledger: the handlers of part_000.                                       *)
(***************************************************************************)
OpIds(ops) == {ops[i].id : i \in 1..Len(ops)}

\* crypto.randomUUID(): an id no stored or held operation has
FreshOpId ==
  LET used == OpIds(bankroll.operations)
                \cup (IF pendingOp = NULL THEN {} ELSE {pendingOp.id})
  IN  CHOOSE n \in 1..(MaxEvents + 2) : n \notin used /\ \A m \in 1..(n - 1) : m \in used

FreshTxId ==
  LET used == OpIds(bankroll.transactions)
  IN  CHOOSE n \in 1..(MaxEvents + 2) : n \notin used /\ \A m \in 1..(n - 1) : m \in used

\* a profit that is not recomputed from the status (mutant of ProfitLoss)
ProfitLoss_alwaysWin(status, stakeAmount, odd) ==
  IF status = PENDING THEN Zero ELSE RMul(stakeAmount, RSub(odd, One))

\* profitLoss of handleAddOperation
ProfitLoss(status, stakeAmount, odd) ==
  IF status = GREEN THEN RMul(stakeAmount, RSub(odd, One))
  ELSE IF status = RED THEN RNeg(stakeAmount)
  ELSE Zero

\* stakeAmount = units * stats.unitValue, on creation and on edit alike
StakeAmountOf(units, unitValue) == RMul(units, unitValue)

\* matchDate: the UTC midnight of the day named, or Date.now()
MatchDate(matchDateString) ==
  IF matchDateString # NoDate THEN matchDateString * DayLen ELSE now

\* opData of handleAddOperation
OpData(unitsStr, oddStr, probStr, status, sentiment, category, matchDateString) ==
  LET units == ParseLocaleNumber(unitsStr)
      odd == ParseLocaleNumber(oddStr)
      prob == ParseLocaleNumber(probStr)
      stakeAmount == StakeAmountOf(units, UnitValue(bankroll))
  IN  [id |-> IF editingOp # NULL THEN editingOp.id ELSE FreshOpId,
       date |-> MatchDate(matchDateString),
       description |-> "d",
       status |-> status,
       stakeUnits |-> units,
       stakeAmount |-> stakeAmount,
       odd |-> odd,
       profitLoss |-> ProfitLoss(status, stakeAmount, odd),
       category |-> IF ToUpperCase(category) = "" THEN "GERAL"
                    ELSE ToUpperCase(category),
       sentiment |-> sentiment,
       estimatedProbability |-> prob,
       isPositiveEV |-> RGt(RSub(RMul(odd, prob), Hundred), Zero)]

\* an update that always prepends (mutant of NewOps)
NewOps_append(prevOps, op) == SortByDate(<<op>> \o prevOps, -1)

\* newOps of executeAddOperation: replace by id or prepend, then sort by
\* date, newest first
NewOps(prevOps, op) ==
  LET exists == \E i \in 1..Len(prevOps) : prevOps[i].id = op.id
      newOps == IF exists
                THEN [i \in 1..Len(prevOps) |->
                        IF prevOps[i].id = op.id THEN op ELSE prevOps[i]]
                ELSE <<op>> \o prevOps
  IN  SortByDate(newOps, -1)

executeAddOperation(op) ==
  /\ events < MaxEvents
  /\ events' = events + 1
  /\ bankroll' = [bankroll EXCEPT !.operations = NewOps(bankroll.operations, op)]
  /\ isOpModalOpen' = FALSE
  /\ showStopWarning' = FALSE
  /\ pendingOp' = NULL
  /\ editingOp' = NULL
  /\ statsHoje' = DayOf(now)

\* no modal is open: the buttons of the page can be clicked
Idle == ~isOpModalOpen /\ ~showStopWarning

\* the Registrar button
OpenNewOperation ==
  /\ Idle
  /\ editingOp' = NULL
  /\ isOpModalOpen' = TRUE
  /\ UNCHANGED <<bankroll, showStopWarning, pendingOp, now, statsHoje, events>>
  /\ UNCHANGED levVars

openEdit(i) ==
  /\ Idle
  /\ i \in 1..Len(bankroll.operations)
  /\ editingOp' = bankroll.operations[i]
  /\ isOpModalOpen' = TRUE
  /\ UNCHANGED <<bankroll, showStopWarning, pendingOp, now, statsHoje, events>>
  /\ UNCHANGED levVars

\* the X button of the operation modal
CloseOpModal ==
  /\ isOpModalOpen /\ ~showStopWarning
  /\ isOpModalOpen' = FALSE
  /\ editingOp' = NULL
  /\ UNCHANGED <<bankroll, showStopWarning, pendingOp, now, statsHoje, events>>
  /\ UNCHANGED levVars

\* a submit that saves without looking at the stop-loss (mutant of
\* handleAddOperation)
handleAddOperation_noGate(unitsStr, oddStr, probStr, status, sentiment, category, matchDateString) ==
  /\ isOpModalOpen /\ ~showStopWarning
  /\ matchDateString = NoDate => now < MaxNow
  /\ executeAddOperation(OpData(unitsStr, oddStr, probStr, status, sentiment,
                                category, matchDateString))
  /\ now' = IF matchDateString = NoDate THEN now + 1 ELSE now
  /\ UNCHANGED levVars

handleAddOperation(unitsStr, oddStr, probStr, status, sentiment, category, matchDateString) ==
  /\ isOpModalOpen /\ ~showStopWarning
  /\ matchDateString = NoDate => now < MaxNow
  /\ LET opData == OpData(unitsStr, oddStr, probStr, status, sentiment,
                          category, matchDateString)
     IN  IF IsStopLossAtingido(bankroll, statsHoje) /\ editingOp = NULL
         THEN /\ pendingOp' = opData
              /\ showStopWarning' = TRUE
              /\ UNCHANGED <<bankroll, isOpModalOpen, editingOp, statsHoje,
                             events>>
         ELSE executeAddOperation(opData)
  /\ now' = IF matchDateString = NoDate THEN now + 1 ELSE now
  /\ UNCHANGED levVars

\* "Encerrar por Hoje" in the intervention dialog
StopWarningEncerrar ==
  /\ showStopWarning
  /\ showStopWarning' = FALSE
  /\ pendingOp' = NULL
  /\ isOpModalOpen' = FALSE
  /\ UNCHANGED <<bankroll, editingOp, now, statsHoje, events>>
  /\ UNCHANGED levVars

\* "Ignorar Gestao e Assumir Risco" in the intervention dialog
StopWarningIgnorar ==
  /\ showStopWarning
  /\ pendingOp # NULL
  /\ executeAddOperation(pendingOp)
  /\ UNCHANGED now
  /\ UNCHANGED levVars

\* onSubmit of the transaction form.  The form lives in a modal opened from
\* the page; the opening and the submit are one step, since the handler reads
\* the clock and the ledger on submit only.  No amount is refused.
handleAddTransaction(type, amountStr) ==
  /\ Idle
  /\ events < MaxEvents
  /\ now < MaxNow
  /\ events' = events + 1
  /\ bankroll' = [bankroll EXCEPT !.transactions =
       <<[id |-> FreshTxId, type |-> type,
          amount |-> ParseLocaleNumber(amountStr), date |-> now,
          description |-> "d"]>> \o bankroll.transactions]
  /\ statsHoje' = DayOf(now)
  /\ now' = now + 1
  /\ UNCHANGED <<isOpModalOpen, editingOp, showStopWarning, pendingOp>>
  /\ UNCHANGED levVars

\* a configuration change that restates the stake of every stored operation
\* at the new risk (mutant of updateConfig)
updateConfig_restake(initialStr, riskStr, goalStr) ==
  /\ Idle
  /\ events < MaxEvents
  /\ events' = events + 1
  /\ bankroll' = [bankroll EXCEPT
       !.initialBalance = ParseLocaleNumber(initialStr),
       !.unitValuePercent = ParseLocaleNumber(riskStr),
       !.dailyGoalPercent = ParseLocaleNumber(goalStr),
       !.operations = [i \in 1..Len(bankroll.operations) |->
          [bankroll.operations[i] EXCEPT !.stakeAmount =
             RMul(bankroll.operations[i].stakeUnits,
                  ParseLocaleNumber(riskStr))]]]
  /\ statsHoje' = DayOf(now)
  /\ UNCHANGED <<isOpModalOpen, editingOp, showStopWarning, pendingOp, now>>
  /\ UNCHANGED levVars

\* onSubmit of the configuration form, opened from the page like the
\* transaction form
updateConfig(initialStr, riskStr, goalStr) ==
  /\ Idle
  /\ events < MaxEvents
  /\ events' = events + 1
  /\ bankroll' = [bankroll EXCEPT
       !.initialBalance = ParseLocaleNumber(initialStr),
       !.unitValuePercent = ParseLocaleNumber(riskStr),
       !.dailyGoalPercent = ParseLocaleNumber(goalStr)]
  /\ statsHoje' = DayOf(now)
  /\ UNCHANGED <<isOpModalOpen, editingOp, showStopWarning, pendingOp, now>>
  /\ UNCHANGED levVars

\* time passes; the memoised stats are not recomputed
Tick ==
  /\ now < MaxNow
  /\ now' = now + 1
  /\ UNCHANGED <<bankroll, isOpModalOpen, editingOp, showStopWarning,
                 pendingOp, statsHoje, events>>
  /\ UNCHANGED levVars

\* part_000 has no leverage tab
Init ==
  /\ LedgerInit
  /\ levStartCapital = <<>>
  /\ levOdd = <<>>
  /\ levSteps = 0
  /\ levWithdrawPercent = 0
  /\ levRows = <<>>
  /\ levHeld = NoReader

Next ==
  \/ OpenNewOperation
  \/ \E i \in 1..MaxEvents : openEdit(i)
  \/ CloseOpModal
  \/ \E unitsStr \in UnitsInputs, form \in OddStatusInputs,
        probStr \in ProbInputs, sentiment \in SentimentInputs,
        category \in CategoryInputs, matchDateString \in MatchDateInputs :
       handleAddOperation(unitsStr, form[1], probStr, form[2], sentiment,
                          category, matchDateString)
  \/ StopWarningEncerrar
  \/ StopWarningIgnorar
  \/ \E type \in TypeInputs, amountStr \in AmountInputs :
       handleAddTransaction(type, amountStr)
  \/ \E initialStr \in InitialInputs, riskStr \in RiskInputs,
        goalStr \in GoalInputs : updateConfig(initialStr, riskStr, goalStr)
  \/ Tick

Spec == Init /\ [][Next]_vars

(***************************************************************************)
(* The ledger with degenerate forms: 0 units, odd 1.  The fields are only  *)
(* required to be non-empty, so the form submits them.                     *)
(***************************************************************************)
EdgeUnitsInputs == {<<"0">>, <<"1">>}
EdgeOddStatusInputs ==
  {<<(<<"1">>), "GREEN">>, <<(<<"2">>), "RED">>, <<(<<"2">>), "PENDING">>}
EdgeMatchDateInputs == {0}
EdgeGoalInputs == {<<"0">>, <<"-", "1">>, <<"1">>}

NextEdge ==
  \/ OpenNewOperation
  \/ \E i \in 1..MaxEvents : openEdit(i)
  \/ CloseOpModal
  \/ \E unitsStr \in EdgeUnitsInputs, form \in EdgeOddStatusInputs,
        probStr \in ProbInputs, sentiment \in SentimentInputs,
        category \in CategoryInputs, matchDateString \in EdgeMatchDateInputs :
       handleAddOperation(unitsStr, form[1], probStr, form[2], sentiment,
                          category, matchDateString)
  \/ StopWarningEncerrar
  \/ StopWarningIgnorar
  \/ \E type \in TypeInputs, amountStr \in AmountInputs :
       handleAddTransaction(type, amountStr)
  \/ \E initialStr \in InitialInputs, riskStr \in RiskInputs,
        goalStr \in EdgeGoalInputs : updateConfig(initialStr, riskStr, goalStr)
  \/ Tick

SpecEdge == Init /\ [][NextEdge]_vars

(***************************************************************************)
(* The load.  localStorage holds nothing, a text that JSON.parse rejects,  *)
(* or a JSON value; an object holds any of the five fields of the ledger.  *)
(***************************************************************************)
\* the outcome of a useState initializer that throws: the component never
\* mounts, and no ledger exists
Raised == [raised |-> TRUE]

\* a JSON value that is no object: spreading it copies no field
ScalarJson == [isObject |-> FALSE, fields |-> <<>>]

\* an operation as JSON.stringify wrote it in an earlier session
StoredOp ==
  [id |-> 1, date |-> 0, description |-> "d", status |-> GREEN,
   stakeUnits |-> One, stakeAmount |-> RInt(10), odd |-> RInt(2),
   profitLoss |-> RInt(10), category |-> "A", sentiment |-> "Calmo",
   estimatedProbability |-> RInt(60), isPositiveEV |-> TRUE]

\* the objects found in storage, by the fields they hold
StoredObjects ==
  { <<>>,
    [f \in {"initialBalance"} |-> RInt(1000)],
    [f \in {"operations"} |-> <<StoredOp>>] }

\* what localStorage.getItem(STORAGE_KEY) finds
StoredBlobs ==
  {[kind |-> "absent", parsed |-> ScalarJson],
   [kind |-> "empty", parsed |-> ScalarJson],
   [kind |-> "unparseable", parsed |-> ScalarJson],
   [kind |-> "json", parsed |-> ScalarJson]}
  \cup {[kind |-> "json", parsed |-> [isObject |-> TRUE, fields |-> o]] :
          o \in StoredObjects}

\* the two initializers: part_000 parses inside try/catch, the v3 variant of
\* App.tsx parses bare
Loaders == {"part_000", "v3"}

\* { ...defaultState, ...parsed }
Spread(defaultState, parsed) ==
  IF ~parsed.isObject THEN defaultState
  ELSE [f \in (DOMAIN defaultState) \cup (DOMAIN parsed.fields) |->
          IF f \in DOMAIN parsed.fields THEN parsed.fields[f]
          ELSE defaultState[f]]

\* the useState initializer of bankroll
Load(loader, saved) ==
  IF saved.kind \in {"absent", "empty"} THEN DefaultState
  ELSE IF saved.kind = "unparseable"
       THEN IF loader = "part_000" THEN DefaultState ELSE Raised
  ELSE Spread(DefaultState, saved.parsed)

\* the component is mounted
Mounted == bankroll # Raised

LoadInit ==
  /\ \E loader \in Loaders, saved \in StoredBlobs :
       bankroll = Load(loader, saved)
  /\ isOpModalOpen = FALSE
  /\ editingOp = NULL
  /\ showStopWarning = FALSE
  /\ pendingOp = NULL
  /\ now = 0
  /\ statsHoje = DayOf(0)
  /\ events = 0
  /\ levStartCapital = <<>>
  /\ levOdd = <<>>
  /\ levSteps = 0
  /\ levWithdrawPercent = 0
  /\ levRows = <<>>
  /\ levHeld = NoReader

LoadOddStatusInputs == {<<(<<"2">>), "GREEN">>, <<(<<"2">>), "RED">>}

\* the handlers of a mounted component
NextLoad ==
  \/ Mounted /\ OpenNewOperation
  \/ Mounted /\ \E i \in 1..MaxEvents : openEdit(i)
  \/ Mounted /\ CloseOpModal
  \/ /\ Mounted
     /\ \E unitsStr \in UnitsInputs, form \in LoadOddStatusInputs,
           probStr \in ProbInputs, sentiment \in SentimentInputs,
           category \in CategoryInputs,
           matchDateString \in EdgeMatchDateInputs :
          handleAddOperation(unitsStr, form[1], probStr, form[2], sentiment,
                             category, matchDateString)
  \/ Mounted /\ StopWarningEncerrar
  \/ Mounted /\ StopWarningIgnorar
  \/ /\ Mounted
     /\ \E type \in TypeInputs, amountStr \in AmountInputs :
          handleAddTransaction(type, amountStr)
  \/ /\ Mounted
     /\ \E initialStr \in InitialInputs, riskStr \in RiskInputs,
           goalStr \in GoalInputs : updateConfig(initialStr, riskStr, goalStr)
  \/ Mounted /\ Tick

SpecLoad == LoadInit /\ [][NextLoad]_vars

(***************************************************************************)
(* The ledger with an odd field that does not parse: the field is a text   *)
(* input that is only required to be non-empty.                            *)
(***************************************************************************)
SignOddStatusInputs == {<<(<<"x">>), "GREEN">>, <<(<<"2">>), "RED">>}

NextSign ==
  \/ OpenNewOperation
  \/ \E i \in 1..MaxEvents : openEdit(i)
  \/ CloseOpModal
  \/ \E unitsStr \in UnitsInputs, form \in SignOddStatusInputs,
        probStr \in ProbInputs, sentiment \in SentimentInputs,
        category \in CategoryInputs, matchDateString \in EdgeMatchDateInputs :
       handleAddOperation(unitsStr, form[1], probStr, form[2], sentiment,
                          category, matchDateString)
  \/ StopWarningEncerrar
  \/ StopWarningIgnorar
  \/ \E type \in TypeInputs, amountStr \in AmountInputs :
       handleAddTransaction(type, amountStr)
  \/ \E initialStr \in InitialInputs, riskStr \in RiskInputs,
        goalStr \in GoalInputs : updateConfig(initialStr, riskStr, goalStr)
  \/ Tick

SpecSign == Init /\ [][NextSign]_vars

(***************************************************************************)
(* The v3 variant of App.tsx: its stats, the two guarded handlers, delete  *)
(* and the configuration form.  Its forms are number inputs, opened from   *)
(* the page; the opening and the submit are one step.                      *)
(***************************************************************************)
V3UnitsInputs == {<<"1">>, <<"2", "0", "0">>}
V3OddStatusInputs == {<<(<<"2">>), "GREEN">>, <<(<<"2">>), "RED">>}
V3AmountInputs == {<<"5", "0", "0">>, <<"-", "5", "0", "0">>}
V3InitialInputs == {<<"1", "0", "0", "0">>}
V3RiskInputs == {<<"5", "0">>}
V3GoalInputs == {<<"1">>}

\* Number(fd.get(...)) of a number input: the field holds "" or a number
V3Number(s) == IF s = <<>> THEN Zero ELSE ParseFloat(s)

RECURSIVE V3SumAmount(_, _)
V3SumAmount(txs, type) ==
  IF txs = <<>> THEN Zero
  ELSE RAdd(IF Head(txs).type = type THEN Head(txs).amount ELSE Zero,
            V3SumAmount(Tail(txs), type))

V3NetInvestment(b) ==
  RSub(RAdd(V3SumAmount(b.transactions, DEPOSIT), b.initialBalance),
       V3SumAmount(b.transactions, WITHDRAWAL))

V3CurrentBalance(b) == RAdd(V3NetInvestment(b), TotalProfit(b))

\* unitValue: unitValue > 0 ? unitValue : 0
V3UnitValue(b) ==
  LET unitValue == RDiv(RMul(V3CurrentBalance(b), b.unitValuePercent), Hundred)
  IN  IF RGt(unitValue, Zero) THEN unitValue ELSE Zero

\* the stake guard of handleAddOperation
V3StakeRejected(b, stakeAmount) ==
  RGt(stakeAmount, V3CurrentBalance(b)) /\ RGt(V3CurrentBalance(b), Zero)

\* the ledger handleAddOperation leaves
V3AddOperation(b, unitsStr, oddStr, status, id, date) ==
  LET units == V3Number(unitsStr)
      odd == V3Number(oddStr)
      stakeAmount == RMul(units, V3UnitValue(b))
  IN  IF V3StakeRejected(b, stakeAmount) THEN b
      ELSE [b EXCEPT !.operations =
              <<[id |-> id, date |-> date, description |-> "d",
                 status |-> status, stakeUnits |-> units,
                 stakeAmount |-> stakeAmount, odd |-> odd,
                 profitLoss |-> ProfitLoss(status, stakeAmount, odd),
                 category |-> "a"]>> \o b.operations]

\* the guard of handleAddTransaction
V3WithdrawalRejected(b, type, amount) ==
  type = WITHDRAWAL /\ RLt(V3CurrentBalance(b), amount)

\* the ledger handleAddTransaction leaves
V3AddTransaction(b, type, amountStr, id, date) ==
  LET amount == V3Number(amountStr)
  IN  IF V3WithdrawalRejected(b, type, amount) THEN b
      ELSE [b EXCEPT !.transactions =
              <<[id |-> id, type |-> type, amount |-> amount, date |-> date,
                 description |-> "d"]>> \o b.transactions]

\* a rejected submit returns after the alert and changes nothing
v3HandleAddOperation(unitsStr, oddStr, status) ==
  LET b == V3AddOperation(bankroll, unitsStr, oddStr, status, FreshOpId, now)
  IN  /\ Idle
      /\ events < MaxEvents
      /\ bankroll' = b
      /\ events' = IF b = bankroll THEN events ELSE events + 1
      /\ UNCHANGED <<isOpModalOpen, editingOp, showStopWarning, pendingOp,
                     now, statsHoje>>
      /\ UNCHANGED levVars

v3HandleAddTransaction(type, amountStr) ==
  LET b == V3AddTransaction(bankroll, type, amountStr, FreshTxId, now)
  IN  /\ Idle
      /\ events < MaxEvents
      /\ bankroll' = b
      /\ events' = IF b = bankroll THEN events ELSE events + 1
      /\ UNCHANGED <<isOpModalOpen, editingOp, showStopWarning, pendingOp,
                     now, statsHoje>>
      /\ UNCHANGED levVars

\* the confirm dialog is answered with OK
v3DeleteOperation(i) ==
  /\ Idle
  /\ events < MaxEvents
  /\ i \in 1..Len(bankroll.operations)
  /\ bankroll' = [bankroll EXCEPT !.operations =
       SelectSeq(bankroll.operations,
                 LAMBDA o : o.id # bankroll.operations[i].id)]
  /\ events' = events + 1
  /\ UNCHANGED <<isOpModalOpen, editingOp, showStopWarning, pendingOp,
                 now, statsHoje>>
  /\ UNCHANGED levVars

v3UpdateConfig(initialStr, riskStr, goalStr) ==
  /\ Idle
  /\ events < MaxEvents
  /\ bankroll' = [bankroll EXCEPT
       !.initialBalance = V3Number(initialStr),
       !.unitValuePercent = V3Number(riskStr),
       !.dailyGoalPercent = V3Number(goalStr)]
  /\ events' = events + 1
  /\ UNCHANGED <<isOpModalOpen, editingOp, showStopWarning, pendingOp,
                 now, statsHoje>>
  /\ UNCHANGED levVars

NextV3 ==
  \/ \E unitsStr \in V3UnitsInputs, form \in V3OddStatusInputs :
       v3HandleAddOperation(unitsStr, form[1], form[2])
  \/ \E type \in TypeInputs, amountStr \in V3AmountInputs :
       v3HandleAddTransaction(type, amountStr)
  \/ \E i \in 1..MaxEvents : v3DeleteOperation(i)
  \/ \E initialStr \in V3InitialInputs, riskStr \in V3RiskInputs,
        goalStr \in V3GoalInputs : v3UpdateConfig(initialStr, riskStr, goalStr)
  \/ Tick

SpecV3 == Init /\ [][NextV3]_vars

(***************************************************************************)
(* Claims about the leverage cycle simulator (checked under SpecLev).      *)
(***************************************************************************)
RowIsZero(row) ==
  /\ row.stake = Zero /\ row.retorno = Zero
  /\ row.saquePotencial = Zero /\ row.nextStake = Zero

\* C1: in every reachable row list every row has return = stake * odd,
\* withdrawalAmount = return * withdrawPercent / 100 and nextStake = return
\* minus the withdrawal if withdrawn, else return; row 1's stake is the
\* configured start capital; a later row's stake is 0 after a RED row and the
\* previous row's nextStake otherwise.
C1_ChainInvariant ==
  \A j \in 1..Len(levRows) :
    LET row == levRows[j]
    IN  /\ row.retorno = RMul(row.stake, row.odd)
        /\ row.saquePotencial =
             RDiv(RMul(row.retorno, RInt(levWithdrawPercent)), Hundred)
        /\ row.nextStake = IF row.isWithdrawn
                           THEN RSub(row.retorno, row.saquePotencial)
                           ELSE row.retorno
        /\ (j = 1 => row.stake = ParseLocaleNumber(levStartCapital))
        /\ (j > 1 => row.stake = IF levRows[j - 1].status = RED THEN Zero
                                 ELSE levRows[j - 1].nextStake)

\* a chain with money in it, a withdrawal taken on row 1 and a RED row 2
C1_Witness ==
  /\ Len(levRows) = 3
  /\ levWithdrawPercent = 20
  /\ levRows[1].isWithdrawn /\ levRows[1].status = GREEN
  /\ levRows[1].nextStake # levRows[1].retorno
  /\ levRows[2].stake = levRows[1].nextStake
  /\ levRows[2].status = RED /\ levRows[2].nextStake # Zero
  /\ levRows[3].stake = Zero

\* C2: while row k is RED every row after k has stake, return, withdrawal
\* amount and nextStake 0, whatever was toggled or set on the other rows.
C2_LossPropagation ==
  \A k \in 1..Len(levRows) :
    levRows[k].status = RED =>
      \A j \in (k + 1)..Len(levRows) : RowIsZero(levRows[j])

\* row 1 is RED with money staked, row 2 was set to GREEN and row 3 withdrawn
C2_Witness ==
  /\ Len(levRows) = 3
  /\ levRows[1].status = RED /\ levRows[1].nextStake # Zero
  /\ levRows[2].status = GREEN /\ levRows[3].isWithdrawn
  /\ RowIsZero(levRows[2]) /\ RowIsZero(levRows[3])

\* the chain generateCycle builds for a configuration
IsFreshChain(rows, capitalStr, oddStr, steps, percent) ==
  /\ Len(rows) = steps
  /\ \A i \in 1..Len(rows) :
       /\ rows[i].step = i
       /\ rows[i].status = PENDING
       /\ rows[i].isWithdrawn = FALSE
       /\ rows[i].odd = ParseLocaleNumber(oddStr)
       /\ rows[i].retorno = RMul(rows[i].stake, ParseLocaleNumber(oddStr))
       /\ rows[i].nextStake = rows[i].retorno
       /\ (i = 1 => rows[i].stake = ParseLocaleNumber(capitalStr))
       /\ (i > 1 => rows[i].stake = rows[i - 1].nextStake)
  /\ (capitalStr = <<"1", "0">> /\ oddStr = <<"2">> /\ steps = 3) =>
       /\ <<rows[1].stake, rows[2].stake, rows[3].stake>> =
            <<RInt(10), RInt(20), RInt(40)>>
       /\ <<rows[1].retorno, rows[2].retorno, rows[3].retorno>> =
            <<RInt(20), RInt(40), RInt(80)>>

\* C10: every change of start capital, target odd, step count or withdrawal
\* percent leaves the chain generateCycle builds for the new settings:
\* stepCount rows numbered 1.., all PENDING and not withdrawn, stake[1] the
\* start capital, return = stake * odd, nextStake = return, stake[i+1] =
\* nextStake[i]; no status or withdrawal flag set before survives.
C10_FullRegenerate ==
  [][<<levStartCapital, levOdd, levSteps, levWithdrawPercent>>' #
       <<levStartCapital, levOdd, levSteps, levWithdrawPercent>>
     => IsFreshChain(levRows', levStartCapital', levOdd', levSteps',
                     levWithdrawPercent')]_vars

\* the chain of start 10, odd 2.0, 3 steps, as generated
C10_Witness ==
  /\ levStartCapital = <<"1", "0">> /\ levOdd = <<"2">> /\ levSteps = 3
  /\ levWithdrawPercent = 20
  /\ Len(levRows) = 3
  /\ \A i \in 1..3 : levRows[i].status = PENDING /\ ~levRows[i].isWithdrawn
  /\ levRows[3].nextStake = RInt(80)
  /\ levRows[3].saquePotencial = RInt(16)

(***************************************************************************)
(* Claims about the ledger (checked under Spec).                           *)
(***************************************************************************)
\* C3: in every reachable ledger state every stored operation has profitLoss
\* = stakeAmount * (odd - 1) if its status is GREEN, -stakeAmount if it is
\* RED, and 0 if it is REFUND or PENDING.
C3_ProfitLossInvariant ==
  \A i \in 1..Len(bankroll.operations) :
    LET o == bankroll.operations[i]
    IN  /\ o.status = GREEN => o.profitLoss = RMul(o.stakeAmount, RSub(o.odd, One))
        /\ o.status = RED => o.profitLoss = RNeg(o.stakeAmount)
        /\ o.status \in {REFUND, PENDING} => o.profitLoss = Zero

\* a ledger with a deposit, a GREEN operation at odd 1.5 and a RED operation,
\* both with money staked
C3_Witness ==
  /\ bankroll.transactions # <<>>
  /\ \E i, j \in 1..Len(bankroll.operations) :
       /\ bankroll.operations[i].status = GREEN
       /\ bankroll.operations[i].odd = Rat(3, 2)
       /\ RGt(bankroll.operations[i].profitLoss, Zero)
       /\ bankroll.operations[i].profitLoss # bankroll.operations[i].stakeAmount
       /\ bankroll.operations[j].status = RED
       /\ RLt(bankroll.operations[j].profitLoss, Zero)

\* C4: a step that keeps an operation (same id, same stake in units) keeps
\* its stakeAmount as recorded at creation, whatever happened to the balance
\* or to the unit risk percent since.
C4_FrozenStake ==
  [][\A i \in 1..Len(bankroll.operations) :
       \A j \in 1..Len(bankroll'.operations) :
         (/\ bankroll.operations[i].id = bankroll'.operations[j].id
          /\ bankroll.operations[i].stakeUnits = bankroll'.operations[j].stakeUnits)
         => bankroll'.operations[j].stakeAmount = bankroll.operations[i].stakeAmount
    ]_vars

IdsDistinct(ops) ==
  \A i, j \in 1..Len(ops) : ops[i].id = ops[j].id => i = j

\* every record of old other than the one with this id is a record of new
OthersKept(old, new, id) ==
  \A i \in 1..Len(old) :
    old[i].id # id => \E j \in 1..Len(new) : new[j] = old[i]

\* C5: a step that changes the operations either keeps their number and their
\* ids, replacing the record of exactly one id and leaving every other record
\* as it was, or adds exactly one record, with an id no record had, and keeps
\* every old record; operation ids are pairwise distinct in every state.
C5_EditReplacesById ==
  /\ []IdsDistinct(bankroll.operations)
  /\ [][bankroll'.operations # bankroll.operations =>
          LET old == bankroll.operations
              new == bankroll'.operations
          IN  \/ /\ Len(new) = Len(old)
                 /\ OpIds(new) = OpIds(old)
                 /\ editingOp # NULL
                 /\ OthersKept(old, new, editingOp.id)
              \/ /\ Len(new) = Len(old) + 1
                 /\ \E id \in OpIds(new) \ OpIds(old) :
                      /\ OpIds(new) = OpIds(old) \cup {id}
                      /\ OthersKept(old, new, 0)
      ]_vars

\* two operations and nothing else in the ledger after three updates: one of
\* the two was edited, and its id kept, while the other is stored too
C5_Witness ==
  /\ events = 3
  /\ Len(bankroll.operations) = 2
  /\ OpIds(bankroll.operations) = {1, 2}
  /\ bankroll.transactions = <<>>
  /\ bankroll.initialBalance = DefaultState.initialBalance
  /\ bankroll.unitValuePercent = DefaultState.unitValuePercent

\* the running balance after the first k items: the initial balance plus
\* their values
RECURSIVE RefRunning(_, _, _)
RefRunning(timeline, k, initial) ==
  IF k = 0 THEN initial
  ELSE RAdd(RefRunning(timeline, k - 1, initial), timeline[k].value)

\* the greatest of a non-empty set of numbers
RMaxOf(S) == CHOOSE x \in S : \A y \in S : RLe(y, x)

\* the historical peak after k items: the maximum of the initial balance and
\* of all running balances so far
RefPeak(timeline, k, initial) ==
  RMaxOf({RefRunning(timeline, j, initial) : j \in 0..k})

\* (peak - runningBalance) / peak * 100, taken as 0 when peak <= 0
RefDD(timeline, k, initial) ==
  LET peak == RefPeak(timeline, k, initial)
      running == RefRunning(timeline, k, initial)
  IN  IF RLe(peak, Zero) THEN Zero
      ELSE RMul(RDiv(RSub(peak, running), peak), Hundred)

\* C6: the maximum drawdown never decreases from one replay step to the
\* next, and the final maximum drawdown of a reachable ledger is at most 100.
C6_DrawdownBounds ==
  LET timeline == SortedTimeline(bankroll)
      initial == bankroll.initialBalance
  IN  /\ \A k \in 1..Len(timeline) :
           RLe(ReplayPrefix(timeline, k - 1, initial).maxDDValue,
               ReplayPrefix(timeline, k, initial).maxDDValue)
      /\ RLe(MaxDrawdown(bankroll), Hundred)

\* C7: at every replay step the peak is the maximum of the initial balance
\* and all running balances so far, and the maximum drawdown is the greatest
\* (peak - runningBalance) / peak * 100 seen so far, a step with peak <= 0
\* counting 0; the maximum drawdown is never negative and is 0 when the
\* running balance never falls below its running peak.
C7_HistoricalPeak ==
  LET timeline == SortedTimeline(bankroll)
      initial == bankroll.initialBalance
  IN  /\ \A k \in 0..Len(timeline) :
           LET st == ReplayPrefix(timeline, k, initial)
           IN  /\ st.runningBalance = RefRunning(timeline, k, initial)
               /\ st.peakBalance = RefPeak(timeline, k, initial)
               /\ st.maxDDValue =
                    RMaxOf({Zero} \cup
                           {RefDD(timeline, j, initial) : j \in 1..k})
      /\ RGe(MaxDrawdown(bankroll), Zero)
      /\ (\A k \in 0..Len(timeline) :
            RGe(RefRunning(timeline, k, initial), RefPeak(timeline, k, initial)))
         => MaxDrawdown(bankroll) = Zero

\* initial balance 1000, a deposit that lifts the peak to 1500, then a loss:
\* the drawdown is measured against 1500
C7_Witness ==
  LET timeline == SortedTimeline(bankroll)
      initial == bankroll.initialBalance
  IN  /\ initial = RInt(1000)
      /\ Len(timeline) = 2
      /\ RefPeak(timeline, 2, initial) = RInt(1500)
      /\ RefRunning(timeline, 2, initial) = RInt(750)
      /\ MaxDrawdown(bankroll) = RInt(50)

RECURSIVE SumTx(_)
SumTx(txs) ==
  IF txs = <<>> THEN Zero
  ELSE RAdd(SumTx(Tail(txs)),
            IF Head(txs).type = DEPOSIT THEN Head(txs).amount
            ELSE RNeg(Head(txs).amount))

RECURSIVE SumPL(_)
SumPL(ops) ==
  IF ops = <<>> THEN Zero ELSE RAdd(SumPL(Tail(ops)), Head(ops).profitLoss)

\* the balance is the initial balance plus deposits minus withdrawals plus
\* the results of the operations, summed in the order they are stored
BalanceIsTotal(b) ==
  CurrentBalance(b) =
    RAdd(b.initialBalance, RAdd(SumTx(b.transactions), SumPL(b.operations)))

\* the step of the scenario: with initial balance 1000, one deposit of 500
\* and no operation, a GREEN operation of 1 unit at odd 2.0 is stored
ScenarioStep ==
  /\ bankroll.initialBalance = RInt(1000)
  /\ Len(bankroll.transactions) = 1
  /\ bankroll.transactions[1].type = DEPOSIT
  /\ bankroll.transactions[1].amount = RInt(500)
  /\ bankroll.operations = <<>>
  /\ bankroll'.transactions = bankroll.transactions
  /\ bankroll'.initialBalance = bankroll.initialBalance
  /\ Len(bankroll'.operations) = 1
  /\ bankroll'.operations[1].status = GREEN
  /\ bankroll'.operations[1].stakeUnits = One
  /\ bankroll'.operations[1].odd = RInt(2)

\* 1500 * unitRiskPercent / 100
ScenarioUnit == RDiv(RMul(RInt(1500), bankroll.unitValuePercent), Hundred)

C9_EmptyLedger ==
  (/\ bankroll.transactions = <<>>
   /\ bankroll.operations = <<>>
   /\ RGe(bankroll.initialBalance, Zero))
  => /\ CurrentBalance(bankroll) = bankroll.initialBalance
     /\ MaxDrawdown(bankroll) = Zero
     /\ Roi(bankroll) = Zero
     /\ WinRate(bankroll) = Zero
     /\ EvRate(bankroll) = Zero
     /\ BestCategory(bankroll) = NULL
     /\ WorstCategory(bankroll) = NULL

\* the empty ledger after the initial balance was set to 1000
C9_Witness ==
  /\ bankroll.transactions = <<>>
  /\ bankroll.operations = <<>>
  /\ bankroll.initialBalance = RInt(1000)
  /\ events > 0

(***************************************************************************)
(* Further claims about the leverage cycle simulator (checked under        *)
(* SpecLev).                                                               *)
(***************************************************************************)
\* a step that leaves the four settings alone: toggleWithdraw or setRowStatus
RowActionStep ==
  <<levStartCapital, levOdd, levSteps, levWithdrawPercent>>' =
    <<levStartCapital, levOdd, levSteps, levWithdrawPercent>>

\* C11: a row action on row i keeps the number of rows and every row's step
\* and odd, leaves every field of every row before i unchanged, leaves the
\* status and the isWithdrawn flag of every row other than i unchanged, and
\* changes at most one of the two on row i; so no status or flag set earlier
\* is reverted by the recompute.
C11_RowActionFrame ==
  [][RowActionStep =>
       /\ Len(levRows') = Len(levRows)
       /\ \A j \in 1..Len(levRows) :
            /\ levRows'[j].step = levRows[j].step
            /\ levRows'[j].odd = levRows[j].odd
       /\ \E i \in 1..Len(levRows) :
            /\ \A j \in 1..(i - 1) : levRows'[j] = levRows[j]
            /\ \A j \in 1..Len(levRows) :
                 j # i => /\ levRows'[j].status = levRows[j].status
                          /\ levRows'[j].isWithdrawn = levRows[j].isWithdrawn
            /\ \/ levRows'[i].status = levRows[i].status
               \/ levRows'[i].isWithdrawn = levRows[i].isWithdrawn
    ]_vars

\* three rows with money in them: row 1 GREEN and withdrawn, row 2 withdrawn,
\* row 3 RED and withdrawn; at least five row actions, each of which kept what
\* the earlier ones set
C11_Witness ==
  /\ Len(levRows) = 3
  /\ levWithdrawPercent = 20
  /\ levRows[1].status = GREEN /\ levRows[1].isWithdrawn
  /\ levRows[2].status = PENDING /\ levRows[2].isWithdrawn
  /\ levRows[3].status = RED /\ levRows[3].isWithdrawn
  /\ levRows[3].nextStake # Zero
  /\ levRows[3].nextStake # levRows[3].retorno

\* the withdrawal example: stake 100 at odd 1.5 with 20% withdrawal gives
\* return 150, withdrawal 30, and nextStake 120 if withdrawn, 150 if not
WithdrawalExample ==
  \A i \in 1..Len(levRows) :
    (/\ levRows[i].stake = RInt(100)
     /\ levRows[i].odd = Rat(3, 2)
     /\ levWithdrawPercent = 20)
    => /\ levRows[i].retorno = RInt(150)
       /\ levRows[i].saquePotencial = RInt(30)
       /\ levRows[i].nextStake =
            IF levRows[i].isWithdrawn THEN RInt(120) ELSE RInt(150)

\* C12: a row action that turns isWithdrawn of row i on leaves nextStake[i] =
\* return[i] - return[i] * withdrawPercent / 100 and, unless row i is RED,
\* stake[i+1] equal to it; one that turns it off leaves nextStake[i] =
\* return[i]; and the withdrawal example holds in every state.
C12_WithdrawalToggle ==
  /\ []WithdrawalExample
  /\ [][RowActionStep =>
          \A i \in 1..Len(levRows) :
            levRows'[i].isWithdrawn # levRows[i].isWithdrawn =>
              IF levRows'[i].isWithdrawn
              THEN /\ levRows'[i].nextStake =
                        RSub(levRows'[i].retorno,
                             RDiv(RMul(levRows'[i].retorno,
                                       RInt(levWithdrawPercent)), Hundred))
                   /\ (i < Len(levRows) /\ levRows'[i].status # RED)
                      => levRows'[i + 1].stake = levRows'[i].nextStake
              ELSE levRows'[i].nextStake = levRows'[i].retorno
      ]_vars

\* the example after the toggle: row 1 withdrawn with nextStake 120, which is
\* the stake of row 2
C12_Witness ==
  /\ Len(levRows) >= 2
  /\ levWithdrawPercent = 20
  /\ levRows[1].stake = RInt(100) /\ levRows[1].odd = Rat(3, 2)
  /\ levRows[1].isWithdrawn
  /\ levRows[1].saquePotencial = RInt(30)
  /\ levRows[1].nextStake = RInt(120)
  /\ levRows[2].stake = RInt(120)

(***************************************************************************)
(* Further claims about the ledger.                                        *)
(***************************************************************************)
\* the result the status of an operation calls for
StatusResult(o, status) ==
  IF status = GREEN THEN RMul(o.stakeAmount, RSub(o.odd, One))
  ELSE IF status = RED THEN RNeg(o.stakeAmount)
  ELSE Zero

UnitValueFloor ==
  /\ RGt(UnitValue(bankroll), Zero)
  /\ RLe(RDiv(RMul(CurrentBalance(bankroll), bankroll.unitValuePercent),
              Hundred), Zero)
     => UnitValue(bankroll) = One

CountStatus(ops, status) ==
  Cardinality({i \in 1..Len(ops) : ops[i].status = status})

\* wins / (wins + losses) * 100, 0 without a win or a loss
RefWinRate(ops) ==
  LET wins == CountStatus(ops, GREEN)
      losses == CountStatus(ops, RED)
  IN  IF wins + losses = 0 THEN Zero
      ELSE RMul(Rat(wins, wins + losses), Hundred)

\* the step touches PENDING and REFUND operations only: every record of the
\* new list is an old record, or is PENDING or REFUND and replaces no GREEN
\* or RED record, and every old id is still stored
UndecidedStep ==
  LET old == bankroll.operations
      new == bankroll'.operations
  IN  /\ \A j \in 1..Len(new) :
           \/ \E i \in 1..Len(old) : old[i] = new[j]
           \/ /\ new[j].status \in {PENDING, REFUND}
              /\ \A i \in 1..Len(old) :
                   old[i].id = new[j].id => old[i].status \in {PENDING, REFUND}
      /\ \A i \in 1..Len(old) : \E j \in 1..Len(new) : new[j].id = old[i].id

GroupProfit(ops, name) ==
  SumPL(SelectSeq(ops, LAMBDA o : CategoryOf(o) = name))

\* the groups of the operations: the upper-cased categories in use
Groups(ops) == {CategoryOf(ops[i]) : i \in 1..Len(ops)}

\* C16: the operations are grouped by upper-cased category; bestCategory is a
\* group of maximal summed profitLoss and worstCategory one of minimal summed
\* profitLoss (null without operations); the insights panel and the advisory
\* prompt name a worst category only if its summed profit is negative; groups
\* A = 50, B = -20, C = -5 give best A and worst B.
C16_CategoryBestWorst ==
  LET ops == bankroll.operations
      best == BestCategory(bankroll)
      worst == WorstCategory(bankroll)
  IN  /\ ops = <<>> => best = NULL /\ worst = NULL
      /\ ops # <<>> =>
           /\ best.name \in Groups(ops) /\ worst.name \in Groups(ops)
           /\ best.profit = GroupProfit(ops, best.name)
           /\ worst.profit = GroupProfit(ops, worst.name)
           /\ \A g \in Groups(ops) :
                /\ RLe(GroupProfit(ops, g), best.profit)
                /\ RGe(GroupProfit(ops, g), worst.profit)
      /\ (/\ Groups(ops) = {"A", "B", "C"}
          /\ GroupProfit(ops, "A") = RInt(50)
          /\ GroupProfit(ops, "B") = RInt(-20)
          /\ GroupProfit(ops, "C") = RInt(-5))
         => best.name = "A" /\ worst.name = "B"
      /\ PanelWorst(bankroll) # "N/A"
         => RLt(GroupProfit(ops, PanelWorst(bankroll)), Zero)
      /\ PromptWorst(bankroll) # "N/A"
         => RLt(GroupProfit(ops, PromptWorst(bankroll)), Zero)

\* the sum of profitLoss over exactly the operations dated on the day hoje
\* whose status is not PENDING
RECURSIVE RefTodayPL(_, _)
RefTodayPL(ops, hoje) ==
  IF ops = <<>> THEN Zero
  ELSE LET o == ops[Len(ops)]
           rest == RefTodayPL(SubSeq(ops, 1, Len(ops) - 1), hoje)
       IN  IF o.date \in (hoje * DayLen)..(hoje * DayLen + DayLen - 1)
              /\ o.status # PENDING
           THEN RAdd(rest, o.profitLoss) ELSE rest

\* C17: with today the day the metrics are computed on, todayPL is the sum of
\* profitLoss over exactly the operations dated today whose status is not
\* PENDING, startingBalanceToday = currentBalance - todayPL, dailyGoalTarget
\* = startingBalanceToday * dailyGoalPercent / 100, and stopLossReached holds
\* iff todayPL <= -dailyGoalTarget and dailyGoalTarget is not 0.
C17_DailyStopLoss ==
  LET todayPL == RefTodayPL(bankroll.operations, statsHoje)
      startingBalanceToday == RSub(CurrentBalance(bankroll), todayPL)
      dailyGoalTarget ==
        RDiv(RMul(startingBalanceToday, bankroll.dailyGoalPercent), Hundred)
  IN  /\ LucroPrejuizoDia(bankroll, statsHoje) = todayPL
      /\ ValorMetaDiaria(bankroll, statsHoje) = dailyGoalTarget
      /\ IsStopLossAtingido(bankroll, statsHoje)
         <=> (RLe(todayPL, RNeg(dailyGoalTarget)) /\ dailyGoalTarget # Zero)

\* the stop-loss is reached by a loss of today while another day has a loss
\* too, which does not count
C17_Witness ==
  /\ IsStopLossAtingido(bankroll, statsHoje)
  /\ \E i, j \in 1..Len(bankroll.operations) :
       /\ DayOf(bankroll.operations[i].date) = statsHoje
       /\ bankroll.operations[i].status = RED
       /\ DayOf(bankroll.operations[j].date) # statsHoje
       /\ bankroll.operations[j].status = RED
       /\ LucroPrejuizoDia(bankroll, statsHoje) = bankroll.operations[i].profitLoss

LedgerOutputs(s) ==
  <<s.currentBalance, s.maxDrawdown, s.totalProfit, s.roi, s.winRate,
    s.unitValue, s.evRate, s.bestCategory, s.worstCategory>>

\* the outputs about today
DailyOutputs(s) ==
  <<s.lucroPrejuizoDia, s.valorMetaDiaria, s.isStopLossAtingido,
    s.isMetaBatida, s.progressoVisual>>

\* C19 as stated: the metrics held for the ledger equal the metrics computed
\* on the same ledger now, in every output, whatever time has passed.
C19_Original ==
  Stats = StatsAt(bankroll, DayOf(now))

\* The part of the determinism that holds: the metrics held for the ledger and
\* the metrics computed on the same ledger now have the same balance,
\* drawdown, totals, ROI, win rate, unit value, EV rate and category results
\* whatever time has passed, and the same todayPL, target, stop and goal
\* flags and progress when both were computed on the same day.
C19_Determinism ==
  LET held == Stats
      fresh == StatsAt(bankroll, DayOf(now))
  IN  /\ LedgerOutputs(fresh) = LedgerOutputs(held)
      /\ statsHoje = DayOf(now) => DailyOutputs(fresh) = DailyOutputs(held)

\* the day has changed since the metrics were computed: a computation now
\* gives another todayPL and the same ROI, which is not 0
C19_Witness ==
  /\ statsHoje # DayOf(now)
  /\ LucroPrejuizoDia(bankroll, statsHoje) # LucroPrejuizoDia(bankroll, DayOf(now))
  /\ Stats.roi = StatsAt(bankroll, DayOf(now)).roi
  /\ Stats.roi # Zero

(***************************************************************************)
(* C20                                                                     *)
(***************************************************************************)
\* the blob holds no value for field f
Missing(saved, f) ==
  \/ saved.kind # "json"
  \/ ~saved.parsed.isObject
  \/ f \notin DOMAIN saved.parsed.fields

\* in a ledger that a load produced, a field the blob does not hold has its
\* default and a field it holds has the stored value
LoadTakesDefaults ==
  \A loader \in Loaders, saved \in StoredBlobs :
    LET b == Load(loader, saved)
    IN  b # Raised =>
        /\ Missing(saved, "initialBalance") => b.initialBalance = Zero
        /\ Missing(saved, "transactions") => b.transactions = <<>>
        /\ Missing(saved, "operations") => b.operations = <<>>
        /\ \A f \in DOMAIN DefaultState :
             ~Missing(saved, f) => b[f] = saved.parsed.fields[f]

\* a step that adds an operation or a transaction keeps what the ledger held
\* and holds one record more
AdditionStep ==
  LET ops == bankroll.operations
      txs == bankroll.transactions
  IN  /\ (editingOp = NULL /\ bankroll'.operations # ops)
         => /\ Len(bankroll'.operations) = Len(ops) + 1
            /\ \A i \in 1..Len(ops) :
                 \E j \in 1..Len(bankroll'.operations) :
                   bankroll'.operations[j] = ops[i]
      /\ bankroll'.transactions # txs
         => /\ Len(bankroll'.transactions) = Len(txs) + 1
            /\ Tail(bankroll'.transactions) = txs

\* C20: whatever the stored blob (absent, empty, not parseable, a JSON value
\* missing fields), each of the two initializers produces the ledger without
\* raising, the fields the blob does not hold take the defaults, and every
\* later addition of an operation or a transaction succeeds.
C20_LoadNeverFails ==
  /\ [](Mounted /\ LoadTakesDefaults)
  /\ [][Mounted => AdditionStep]_vars

(***************************************************************************)
(* C21                                                                     *)
(***************************************************************************)
\* a step that changes initialBalance, unitValuePercent or dailyGoalPercent
ConfigChanged ==
  \/ bankroll'.initialBalance # bankroll.initialBalance
  \/ bankroll'.unitValuePercent # bankroll.unitValuePercent
  \/ bankroll'.dailyGoalPercent # bankroll.dailyGoalPercent

\* C21: a configuration change leaves the transactions list and every field
\* of every stored operation, stakeAmount and profitLoss included, unchanged.
C21_ConfigKeepsRecords ==
  [][ConfigChanged => /\ bankroll'.transactions = bankroll.transactions
                      /\ bankroll'.operations = bankroll.operations]_vars

\* the configuration was changed over a ledger that held an operation staked
\* at the floor of the default configuration, and a transaction
C21_Witness ==
  /\ bankroll.unitValuePercent = RInt(50)
  /\ bankroll.initialBalance = RInt(1000)
  /\ Len(bankroll.transactions) >= 1
  /\ \E i \in 1..Len(bankroll.operations) :
       /\ bankroll.operations[i].stakeAmount = One
       /\ bankroll.operations[i].status # PENDING

(***************************************************************************)
(* C22                                                                     *)
(***************************************************************************)
\* C22: no mutation edits in place: after every step that changes the
\* leverage row list, a reader holding the list of before the step reads in
\* it what it held before the step.  (The ledger is a value of the model and
\* its handlers assign a new value to it; the row list is the collection whose
\* rows are objects shared between the arrays.)
C22_CopyOnWrite ==
  [][(levHeld.held /\ levRows' # levRows) => levHeld'.rows = levRows]_vars

(***************************************************************************)
(* C23                                                                     *)
(***************************************************************************)
\* the step set the isWithdrawn flag or the status of row i
ActedRow(i) ==
  \/ levRows'[i].isWithdrawn # levRows[i].isWithdrawn
  \/ levRows'[i].status # levRows[i].status

\* C23 as stated: the row acted on keeps its stake, return, withdrawalAmount
\* and nextStake.
C23_Original ==
  [][RowActionStep =>
       \A i \in 1..Len(levRows) :
         ActedRow(i) => /\ levRows'[i].stake = levRows[i].stake
                        /\ levRows'[i].retorno = levRows[i].retorno
                        /\ levRows'[i].saquePotencial = levRows[i].saquePotencial
                        /\ levRows'[i].nextStake = levRows[i].nextStake
    ]_vars

\* C23, amended: the row acted on is recomputed with the rows after it: its
\* stake, return and withdrawalAmount come out as they were, its nextStake is
\* return - withdrawalAmount if the row is now withdrawn and return if not
\* (unchanged when only the status was set), and the rows before it are
\* untouched.
C23_ActedRowRecomputed ==
  [][RowActionStep =>
       \A i \in 1..Len(levRows) :
         ActedRow(i) =>
           /\ levRows'[i].stake = levRows[i].stake
           /\ levRows'[i].retorno = levRows[i].retorno
           /\ levRows'[i].saquePotencial = levRows[i].saquePotencial
           /\ levRows'[i].nextStake =
                IF levRows'[i].isWithdrawn
                THEN RSub(levRows[i].retorno, levRows[i].saquePotencial)
                ELSE levRows[i].retorno
           /\ levRows'[i].isWithdrawn = levRows[i].isWithdrawn
              => levRows'[i].nextStake = levRows[i].nextStake
           /\ \A j \in 1..(i - 1) : levRows'[j] = levRows[j]
    ]_vars

\* row 1 was toggled on with money in it: its nextStake is no longer its
\* return, and row 2 is staked with it
C23_Witness ==
  /\ Len(levRows) >= 2
  /\ levRows[1].isWithdrawn
  /\ levRows[1].status = PENDING
  /\ levRows[1].saquePotencial # Zero
  /\ levRows[1].nextStake # levRows[1].retorno
  /\ levRows[2].stake = levRows[1].nextStake

(***************************************************************************)
(* C24                                                                     *)
(***************************************************************************)
\* ids are handed out in the order of creation: the records by ascending id
\* are the records in the order in which they were added
RECURSIVE InsertById(_, _)
InsertById(sorted, x) ==
  IF sorted = <<>> THEN <<x>>
  ELSE IF Head(sorted).id <= x.id
       THEN <<Head(sorted)>> \o InsertById(Tail(sorted), x)
       ELSE <<x>> \o sorted

RECURSIVE InInsertionOrder(_)
InInsertionOrder(seq) ==
  IF seq = <<>> THEN <<>>
  ELSE InsertById(InInsertionOrder(Tail(seq)), Head(seq))

\* the timeline of the ledger whose records are taken in the order in which
\* they were added, sorted by date with a stable sort
InsertionTimeline(b) ==
  SortedTimeline([b EXCEPT !.operations = InInsertionOrder(b.operations),
                           !.transactions = InInsertionOrder(b.transactions)])

\* C24: entries with the same timestamp are replayed in the order in which
\* their records were added: maxDrawdown is the value that the replay of the
\* timeline in insertion order gives.
C24_TieOrder ==
  MaxDrawdown(bankroll) =
    LET timeline == InsertionTimeline(bankroll)
    IN  ReplayPrefix(timeline, Len(timeline), bankroll.initialBalance).maxDDValue

(***************************************************************************)
(* C25                                                                     *)
(***************************************************************************)
\* the sum of withdrawalAmount over the withdrawn rows among the last k
RECURSIVE RefWithdrawn(_, _)
RefWithdrawn(rows, k) ==
  IF k = 0 THEN Zero
  ELSE LET i == Len(rows) - k + 1
       IN  RAdd(IF rows[i].isWithdrawn THEN rows[i].saquePotencial ELSE Zero,
                RefWithdrawn(rows, k - 1))

\* C25: totalWithdrawals is the sum of withdrawalAmount over exactly the
\* rows with isWithdrawn = true, whatever their status, and
\* currentCycleBalance is the nextStake of the highest-numbered row whose
\* status is Win, or 0 if no row is Win.
C25_LeverageSummary ==
  LET wins == {i \in 1..Len(levRows) : levRows[i].status = GREEN}
  IN  /\ leverageSummary.totalWithdrawals = RefWithdrawn(levRows, Len(levRows))
      /\ leverageSummary.currentBalance =
           IF wins = {} THEN Zero
           ELSE levRows[CHOOSE i \in wins : \A j \in wins : j <= i].nextStake

\* row 1 won and reinvests, row 2 lost and is withdrawn with money in it,
\* row 3 is staked 0: the total counts the withdrawal of the lost row and the
\* balance is the nextStake of row 1
C25_Witness ==
  /\ Len(levRows) = 3
  /\ levRows[1].status = GREEN /\ ~levRows[1].isWithdrawn
  /\ levRows[2].status = RED /\ levRows[2].isWithdrawn
  /\ levRows[2].saquePotencial # Zero
  /\ levRows[3].status = PENDING
  /\ leverageSummary.totalWithdrawals = levRows[2].saquePotencial
  /\ leverageSummary.currentBalance = levRows[1].nextStake
  /\ leverageSummary.currentBalance # Zero

(***************************************************************************)
(* C26                                                                     *)
(***************************************************************************)
\* the stop-loss flag that handleAddOperation reads
StopLossReached == IsStopLossAtingido(bankroll, statsHoje)

\* the step ran executeAddOperation: a ledger update that is neither a
\* transaction nor a configuration change
ExecuteAddStep ==
  /\ events' # events
  /\ bankroll'.transactions = bankroll.transactions
  /\ ~ConfigChanged
  /\ \/ bankroll'.operations # bankroll.operations
     \/ isOpModalOpen /\ ~isOpModalOpen'

\* what the steps do around the intervention dialog
GateStep ==
  \* a new operation is not saved while the stop-loss is reached
  /\ (~showStopWarning /\ editingOp = NULL /\ StopLossReached)
       => bankroll'.operations = bankroll.operations
  \* the dialog opens only for a new operation under the stop-loss, and holds it
  /\ (~showStopWarning /\ showStopWarning')
       => /\ StopLossReached /\ editingOp = NULL
          /\ pendingOp' # NULL
          /\ bankroll' = bankroll
  \* an edit is never gated, and is saved
  /\ (~showStopWarning /\ editingOp # NULL)
       => /\ ~showStopWarning'
          /\ pendingOp' = NULL
  \* from the dialog the ledger changes by taking the held operation only
  /\ (showStopWarning /\ bankroll' # bankroll)
       => /\ bankroll'.operations = NewOps(bankroll.operations, pendingOp)
          /\ ExecuteAddStep
  \* leaving the dialog otherwise discards the held operation
  /\ (showStopWarning /\ ~showStopWarning' /\ bankroll' = bankroll)
       => pendingOp' = NULL /\ ~isOpModalOpen'
  \* executeAddOperation clears the dialog, the held operation, the edited
  \* operation and the modal
  /\ ExecuteAddStep
       => /\ ~showStopWarning' /\ pendingOp' = NULL
          /\ editingOp' = NULL /\ ~isOpModalOpen'

\* C26: under the stop-loss a new operation is held as pendingOp with the
\* warning shown and the ledger unchanged; it enters the ledger only when the
\* warning is ignored, and ending the day discards it; the warning is shown
\* only while a pendingOp is held; an edit is never gated; and after every
\* executeAddOperation the warning, pendingOp, editingOp and the modal are
\* cleared.
C26_StopLossGate ==
  /\ [](/\ showStopWarning <=> pendingOp # NULL
        /\ showStopWarning => /\ isOpModalOpen /\ editingOp = NULL
                              /\ pendingOp.id \notin OpIds(bankroll.operations))
  /\ [][GateStep]_vars

\* the dialog is up over a ledger of two operations: the stop-loss was
\* reached and a new operation is held outside the ledger
C26_Witness ==
  /\ showStopWarning
  /\ pendingOp # NULL
  /\ StopLossReached
  /\ Len(bankroll.operations) = 2
  /\ pendingOp.status = GREEN

(***************************************************************************)
(* C27                                                                     *)
(***************************************************************************)
\* C27: in every reachable ledger and configuration, stopLossReached implies
\* todayPL < 0, and the goal flag isMetaBatida and stopLossReached are never
\* both true.
C27_StopImpliesLoss ==
  /\ StopLossReached => RLt(LucroPrejuizoDia(bankroll, statsHoje), Zero)
  /\ ~(IsMetaBatida(bankroll, statsHoje) /\ StopLossReached)

(***************************************************************************)
(* C28                                                                     *)
(***************************************************************************)
\* C28: in every reachable ledger every Win operation has profitLoss >= 0
\* and every Loss operation has profitLoss <= 0, whatever text the form
\* fields held.
C28_SignOfOutcome ==
  \A i \in 1..Len(bankroll.operations) :
    LET o == bankroll.operations[i]
    IN  /\ o.status = GREEN => RGe(o.profitLoss, Zero)
        /\ o.status = RED => RLe(o.profitLoss, Zero)

(***************************************************************************)
(* C29                                                                     *)
(***************************************************************************)
\* the rows after toggleWithdraw(i) is applied twice in a row
ToggledTwice(i) ==
  ToggledRows(ToggledRows(levRows, i, levStartCapital, levWithdrawPercent),
              i, levStartCapital, levWithdrawPercent)

\* C29: for every reachable row list and every row i, toggleWithdraw(i)
\* applied twice in a row restores every field of every row and both summary
\* outputs.
C29_ToggleInvolution ==
  \A i \in 1..Len(levRows) :
    /\ ToggledTwice(i) = levRows
    /\ LeverageSummaryOf(ToggledTwice(i)) = leverageSummary

\* a list of three rows that row actions have shaped, where one toggle of
\* row 2 changes the rows after it and both summary outputs
C29_Witness ==
  /\ Len(levRows) = 3
  /\ levRows[2].isWithdrawn /\ levRows[2].status = GREEN
  /\ levRows[1].status = GREEN
  /\ LET once == ToggledRows(levRows, 2, levStartCapital, levWithdrawPercent)
     IN  /\ once[3].stake # levRows[3].stake
         /\ LeverageSummaryOf(once).totalWithdrawals
              # leverageSummary.totalWithdrawals
         /\ LeverageSummaryOf(once).currentBalance
              # leverageSummary.currentBalance

(***************************************************************************)
(* C30                                                                     *)
(***************************************************************************)
\* every update of the ledger so far was an accepted addition: no record
\* was deleted and the configuration is the one of the start
OnlyAdditions ==
  events = Len(bankroll.operations) + Len(bankroll.transactions)

\* C30: in the v3 variant a withdrawal above the current balance and an
\* operation whose stake is above a positive current balance leave the two
\* lists unchanged, and from a non-negative initial balance no sequence of
\* accepted additions makes the current balance negative.
C30_GuardedEntries ==
  /\ \A amountStr \in V3AmountInputs :
       RLt(V3CurrentBalance(bankroll), V3Number(amountStr))
         => V3AddTransaction(bankroll, WITHDRAWAL, amountStr, FreshTxId, now)
              = bankroll
  /\ \A unitsStr \in V3UnitsInputs, form \in V3OddStatusInputs :
       (/\ RGt(RMul(V3Number(unitsStr), V3UnitValue(bankroll)),
               V3CurrentBalance(bankroll))
        /\ RGt(V3CurrentBalance(bankroll), Zero))
         => V3AddOperation(bankroll, unitsStr, form[1], form[2], FreshOpId, now)
              = bankroll
  /\ (OnlyAdditions /\ RGe(bankroll.initialBalance, Zero))
       => RGe(V3CurrentBalance(bankroll), Zero)

====
